---- MODULE Spec2Model ----
(***************************************************************************)
(* Model of go-sitemeta (src/sitemeta.go): the two-stage metadata          *)
(* extraction pipeline Client.GetSiteMeta, the head/meta-tag resolver      *)
(* Client.parseSiteMeta and the image URL normalisation                    *)
(* Client.resolveImageURL.                                                 *)
(*                                                                         *)
(* Text is modelled as a sequence of one-character strings, so that the    *)
(* net/url operations the program calls (url.Parse, URL.String,            *)
(* URL.IsAbs, URL.Parse) are computed character by character.  The         *)
(* character domain of the model is letters, digits and . - / : ? #  ; no  *)
(* character of it needs percent-escaping, so the escaping passes of       *)
(* net/url act as the identity on it and are not modelled.                 *)
(***************************************************************************)
EXTENDS Naturals, Sequences, FiniteSets

VARIABLES
    pc,           \* position of the GetSiteMeta call: idle, static, render, done
    websiteURL,   \* argument of the call in progress
    siteURL,      \* parsedURL.String() (line 67 / 73)
    httpMeta,     \* (meta, err) of extractMetaWithHTTP (line 67)
    chromedpMeta, \* (chromedpMeta, err) of extractMetaWithChromedp (line 73)
    result,       \* returned *SiteMeta: <<>> for nil, <<m>> otherwise
    err,          \* returned error: its message prefix, NoError when nil
    log,          \* what line 75 printed: "ChromeDP extraction failed" or "none"
    fetches,      \* sequence of the fetch stages started by the call
    rpc,          \* parseSiteMeta on its own: "input" or "resolved"
    rdoc,         \* parseSiteMeta on its own: the document handed to parseSiteMeta
    rurl,         \* parseSiteMeta on its own: the siteURL handed to parseSiteMeta
    rmeta,        \* parseSiteMeta on its own: what parseSiteMeta returned
    ipc,          \* resolveImageURL on its own: "input" or "resolved"
    imageURL,     \* resolveImageURL on its own: first argument of resolveImageURL
    baseURL,      \* resolveImageURL on its own: second argument of resolveImageURL
    iout          \* resolveImageURL on its own: what resolveImageURL returned

vars ==
    <<pc, websiteURL, siteURL, httpMeta, chromedpMeta, result, err, log, fetches,
      rpc, rdoc, rurl, rmeta, ipc, imageURL, baseURL, iout>>

pipelineVars ==
    <<pc, websiteURL, siteURL, httpMeta, chromedpMeta, result, err, log, fetches>>

resolverVars ==
    <<rpc, rdoc, rurl, rmeta>>

imageVars ==
    <<ipc, imageURL, baseURL, iout>>

-----------------------------------------------------------------------------
(* Text helpers: the strings package functions net/url uses.               *)

EmptyText ==
    <<>>

\* strings.Index(s, c) for a one-character c; 0 when absent (1-based).
IndexOf(s, c) ==
    IF \E i \in 1..Len(s) : s[i] = c
    THEN CHOOSE i \in 1..Len(s) : s[i] = c /\ \A j \in 1..(i - 1) : s[j] # c
    ELSE 0

\* strings.LastIndex(s, c) for a one-character c; 0 when absent (1-based).
LastIndexOf(s, c) ==
    IF \E i \in 1..Len(s) : s[i] = c
    THEN CHOOSE i \in 1..Len(s) : s[i] = c /\ \A j \in (i + 1)..Len(s) : s[j] # c
    ELSE 0

Contains(s, c) ==
    IndexOf(s, c) # 0

Count(s, c) ==
    Cardinality({i \in 1..Len(s) : s[i] = c})

\* strings.Cut(s, c): the text before and after the first c.
CutBefore(s, c) ==
    IF Contains(s, c) THEN SubSeq(s, 1, IndexOf(s, c) - 1) ELSE s

CutAfter(s, c) ==
    IF Contains(s, c) THEN SubSeq(s, IndexOf(s, c) + 1, Len(s)) ELSE EmptyText

HasPrefix(s, p) ==
    Len(s) >= Len(p) /\ SubSeq(s, 1, Len(p)) = p

Drop(s, n) ==
    SubSeq(s, n + 1, Len(s))

UpperLetters ==
    <<"A", "B", "C", "D", "E", "F", "G", "H", "I", "J", "K", "L", "M", "N", "O", "P", "Q", "R", "S", "T", "U", "V", "W", "X", "Y", "Z">>

LowerLetters ==
    <<"a", "b", "c", "d", "e", "f", "g", "h", "i", "j", "k", "l", "m", "n", "o", "p", "q", "r", "s", "t", "u", "v", "w", "x", "y", "z">>

Digits ==
    <<"0", "1", "2", "3", "4", "5", "6", "7", "8", "9">>

IsUpper(c) ==
    Contains(UpperLetters, c)

IsLetter(c) ==
    Contains(UpperLetters, c) \/ Contains(LowerLetters, c)

IsDigit(c) ==
    Contains(Digits, c)

\* strings.ToLower
ToLower(s) ==
    [i \in 1..Len(s) |->
        IF IsUpper(s[i]) THEN LowerLetters[IndexOf(UpperLetters, s[i])] ELSE s[i]]

-----------------------------------------------------------------------------
(* net/url as the program uses it.  A parsed URL is a record; a parse      *)
(* result is [ok, url].                                                    *)

EmptyURL ==
    [Scheme |-> EmptyText, Opaque |-> EmptyText, Host |-> EmptyText,
     Path |-> EmptyText, RawQuery |-> EmptyText, ForceQuery |-> FALSE,
     Fragment |-> EmptyText, OmitHost |-> FALSE]

ParseError ==
    [ok |-> FALSE, url |-> EmptyURL]

\* getScheme: may position i of rawURL continue a scheme?
SchemeChar(s, i) ==
    \/ IsLetter(s[i])
    \/ i > 1 /\ (IsDigit(s[i]) \/ s[i] \in {"+", "-", "."})

\* getScheme: the first position that ends the scan, 0 when the scan runs out.
SchemeStop(s) ==
    IF \E i \in 1..Len(s) : ~SchemeChar(s, i)
    THEN CHOOSE i \in 1..Len(s) :
            ~SchemeChar(s, i) /\ \A j \in 1..(i - 1) : SchemeChar(s, j)
    ELSE 0

\* getScheme, once the scan has stopped at position k
SchemeAt(s, k) ==
    IF k # 0 /\ s[k] = ":"
    THEN IF k = 1
         THEN [ok |-> FALSE, scheme |-> EmptyText, rest |-> EmptyText]
         ELSE [ok |-> TRUE, scheme |-> SubSeq(s, 1, k - 1), rest |-> Drop(s, k)]
    ELSE [ok |-> TRUE, scheme |-> EmptyText, rest |-> s]

\* getScheme(rawURL) (scheme, rest, err)
GetScheme(s) ==
    SchemeAt(s, SchemeStop(s))

\* validOptionalPort applied to host[i:], i the place of the last ":"
ValidPortAt(host, i) ==
    i = 0 \/ \A j \in (i + 1)..Len(host) : IsDigit(host[j])

\* parseHost
ValidHost(host) ==
    ValidPortAt(host, LastIndexOf(host, ":"))

\* parse: strings.HasSuffix(rest, "?") && strings.Count(rest, "?") == 1
ForceQueryOf(rest) ==
    Len(rest) > 0 /\ rest[Len(rest)] = "?" /\ Count(rest, "?") = 1

\* parse: rest once the query has been cut off
BeforeQuery(rest) ==
    IF ForceQueryOf(rest) THEN SubSeq(rest, 1, Len(rest) - 1)
    ELSE CutBefore(rest, "?")

\* parse: url.RawQuery
QueryOf(rest) ==
    IF ForceQueryOf(rest) THEN EmptyText ELSE CutAfter(rest, "?")

\* parse: does rest start with an authority?
HasAuthority(scheme, rest) ==
    /\ scheme # EmptyText \/ ~HasPrefix(rest, <<"/", "/", "/">>)
    /\ HasPrefix(rest, <<"/", "/">>)

\* parse: authority, rest = rest[2:], "" and the cut at the first "/"
AuthorityOf(afterSlashes, slash) ==
    IF slash = 0 THEN afterSlashes ELSE SubSeq(afterSlashes, 1, slash - 1)

PathAfterAuthority(afterSlashes, slash) ==
    IF slash = 0 THEN EmptyText ELSE Drop(afterSlashes, slash - 1)

\* parse: parseAuthority and setPath on an authority and the rest
ParseAuthority(u0, authority, path) ==
    IF ValidHost(authority)
    THEN [ok |-> TRUE, url |-> [u0 EXCEPT !.Host = authority, !.Path = path]]
    ELSE ParseError

\* parse, from the test !strings.HasPrefix(rest, "/") on; u0 holds the
\* scheme and the query
ParseRest(u0, rest) ==
    IF ~HasPrefix(rest, <<"/">>) /\ u0.Scheme # EmptyText
    THEN [ok |-> TRUE, url |-> [u0 EXCEPT !.Opaque = rest]]
    ELSE IF ~HasPrefix(rest, <<"/">>) /\ Contains(CutBefore(rest, "/"), ":")
    THEN ParseError
    ELSE IF HasAuthority(u0.Scheme, rest)
    THEN ParseAuthority(u0,
            AuthorityOf(Drop(rest, 2), IndexOf(Drop(rest, 2), "/")),
            PathAfterAuthority(Drop(rest, 2), IndexOf(Drop(rest, 2), "/")))
    ELSE [ok |-> TRUE,
          url |-> [u0 EXCEPT !.Path = rest,
                             !.OmitHost = (u0.Scheme # EmptyText
                                            /\ HasPrefix(rest, <<"/">>))]]

\* parse, after getScheme
ParseAfterScheme(gs) ==
    IF ~gs.ok THEN ParseError
    ELSE ParseRest([EmptyURL EXCEPT !.Scheme = ToLower(gs.scheme),
                                    !.RawQuery = QueryOf(gs.rest),
                                    !.ForceQuery = ForceQueryOf(gs.rest)],
                   BeforeQuery(gs.rest))

\* parse(rawURL, viaRequest = false), after the fragment has been cut off
ParseNoFragment(s) ==
    ParseAfterScheme(GetScheme(s))

\* url.Parse: setFragment on the result of parse
WithFragment(p, frag) ==
    IF ~p.ok THEN ParseError
    ELSE [ok |-> TRUE, url |-> [p.url EXCEPT !.Fragment = frag]]

\* url.Parse(rawURL)
Parse(s) ==
    WithFragment(ParseNoFragment(CutBefore(s, "#")), CutAfter(s, "#"))

\* (*URL).IsAbs
IsAbs(u) ==
    u.Scheme # EmptyText

\* String: what is written before the path, the scheme apart
HostPart(u) ==
    IF u.Scheme # EmptyText \/ u.Host # EmptyText
    THEN IF u.OmitHost /\ u.Host = EmptyText
         THEN EmptyText
         ELSE (IF u.Host # EmptyText \/ u.Path # EmptyText
               THEN <<"/", "/">> ELSE EmptyText) \o u.Host
    ELSE EmptyText

\* String: the "/" put before a path that lacks it, when there is a host
PathSeparator(u) ==
    IF u.Path # EmptyText /\ u.Path[1] # "/" /\ u.Host # EmptyText
    THEN <<"/">> ELSE EmptyText

\* String: the "./" put before a first path segment with a colon, when nothing
\* has been written yet
DotPrefix(u, written) ==
    IF written = EmptyText /\ Contains(CutBefore(u.Path, "/"), ":")
    THEN <<".", "/">> ELSE EmptyText

\* String: scheme, then opaque or host and path
BeforeQueryString(u, schemePart, hostPart, sep) ==
    IF u.Opaque # EmptyText THEN schemePart \o u.Opaque
    ELSE schemePart \o hostPart \o sep
            \o DotPrefix(u, schemePart \o hostPart \o sep) \o u.Path

\* (*URL).String
String(u) ==
    BeforeQueryString(u,
        IF u.Scheme # EmptyText THEN u.Scheme \o <<":">> ELSE EmptyText,
        HostPart(u), PathSeparator(u))
    \o (IF u.ForceQuery \/ u.RawQuery # EmptyText
        THEN <<"?">> \o u.RawQuery ELSE EmptyText)
    \o (IF u.Fragment # EmptyText THEN <<"#">> \o u.Fragment ELSE EmptyText)

\* strings.Split(s, "/"), the elements resolvePath's loop cuts off one by one
RECURSIVE SplitSlash(_)
SplitSlash(s) ==
    IF Contains(s, "/")
    THEN <<CutBefore(s, "/")>> \o SplitSlash(CutAfter(s, "/"))
    ELSE <<s>>

\* one iteration of resolvePath's loop for elem = "..": str is dst.String()[1:]
\* and index the place of its last "/"
ResolveDotDot(st, str, index) ==
    IF index = 0
    THEN [dst |-> <<"/">>, first |-> TRUE]
    ELSE [dst |-> <<"/">> \o SubSeq(str, 1, index - 1), first |-> st.first]

\* one iteration of resolvePath's loop on the builder dst and the flag first
ResolveStep(st, elem) ==
    IF elem = <<".">>
    THEN [st EXCEPT !.first = FALSE]
    ELSE IF elem = <<".", ".">>
    THEN ResolveDotDot(st, Drop(st.dst, 1), LastIndexOf(Drop(st.dst, 1), "/"))
    ELSE [dst |-> st.dst \o (IF st.first THEN EmptyText ELSE <<"/">>) \o elem,
          first |-> FALSE]

RECURSIVE ResolveLoop(_, _)
ResolveLoop(st, elems) ==
    IF elems = <<>> THEN st
    ELSE ResolveLoop(ResolveStep(st, Head(elems)), Tail(elems))

\* resolvePath: the base and the reference put together
FullPath(base, ref) ==
    IF ref = EmptyText THEN base
    ELSE IF ref[1] # "/"
    THEN SubSeq(base, 1, LastIndexOf(base, "/")) \o ref
    ELSE ref

\* resolvePath: the end of the function, r being dst.String()
TrimResolved(r) ==
    IF Len(r) > 1 /\ r[2] = "/" THEN Drop(r, 1) ELSE r

\* resolvePath: the loop over the elements and the trailing slash
ResolveElems(elems) ==
    TrimResolved(
        ResolveLoop([dst |-> <<"/">>, first |-> TRUE], elems).dst
        \o (IF elems[Len(elems)] \in {<<".">>, <<".", ".">>}
            THEN <<"/">> ELSE EmptyText))

\* resolvePath, once full is known
ResolveFull(full) ==
    IF full = EmptyText THEN EmptyText ELSE ResolveElems(SplitSlash(full))

\* resolvePath(base, ref)
ResolvePath(base, ref) ==
    ResolveFull(FullPath(base, ref))

\* ResolveReference: is the query (and the fragment) taken from the base?
InheritsQuery(ref) ==
    ref.Path = EmptyText /\ ~ref.ForceQuery /\ ref.RawQuery = EmptyText

\* (*URL).ResolveReference(ref)
ResolveReference(u, ref) ==
    IF ref.Scheme # EmptyText \/ ref.Host # EmptyText
    THEN [ref EXCEPT !.Scheme = IF ref.Scheme = EmptyText THEN u.Scheme
                                 ELSE ref.Scheme,
                     !.Path = ResolvePath(ref.Path, EmptyText)]
    ELSE IF ref.Opaque # EmptyText
    THEN [ref EXCEPT !.Scheme = u.Scheme, !.Host = EmptyText, !.Path = EmptyText]
    ELSE [ref EXCEPT
            !.Scheme = u.Scheme,
            !.RawQuery = IF InheritsQuery(ref) THEN u.RawQuery ELSE ref.RawQuery,
            !.Fragment = IF InheritsQuery(ref) /\ ref.Fragment = EmptyText
                         THEN u.Fragment ELSE ref.Fragment,
            !.Opaque = IF ref.Path = EmptyText THEN u.Opaque ELSE ref.Opaque,
            !.Host = IF ref.Path = EmptyText /\ u.Opaque # EmptyText
                     THEN EmptyText ELSE u.Host,
            !.Path = IF ref.Path = EmptyText /\ u.Opaque # EmptyText
                     THEN EmptyText ELSE ResolvePath(u.Path, ref.Path)]

\* (*URL).Parse(ref), once ref has been parsed
ResolveParsed(u, p) ==
    IF ~p.ok THEN ParseError
    ELSE [ok |-> TRUE, url |-> ResolveReference(u, p.url)]

\* (*URL).Parse(ref): parse ref, then resolve it against the receiver
ParseRelative(u, ref) ==
    ResolveParsed(u, Parse(ref))

\* variant: a value that cannot be resolved is dropped
DropUnresolved(image, resolved) ==
    IF resolved.ok THEN String(resolved.url) ELSE EmptyText

DropUnresolvedParsed(image, parsed, base) ==
    IF parsed.ok /\ IsAbs(parsed.url) THEN image
    ELSE IF base.ok THEN DropUnresolved(image, ParseRelative(base.url, image))
    ELSE EmptyText

resolveImageURLDropUnresolved(image, base) ==
    IF image = EmptyText THEN EmptyText
    ELSE DropUnresolvedParsed(image, Parse(image), Parse(base))

-----------------------------------------------------------------------------
(* Client.resolveImageURL                                                  *)

\* lines 279-284: the resolved reference, or the raw value
ResolvedOrRaw(image, resolved) ==
    IF resolved.ok THEN String(resolved.url) ELSE image

\* lines 274-284, parsed and base being the two url.Parse results
ResolveParsedImage(image, parsed, base) ==
    IF parsed.ok /\ IsAbs(parsed.url) THEN image
    ELSE IF base.ok THEN ResolvedOrRaw(image, ParseRelative(base.url, image))
    ELSE image

resolveImageURL(image, base) ==
    IF image = EmptyText THEN EmptyText
    ELSE ResolveParsedImage(image, Parse(image), Parse(base))

-----------------------------------------------------------------------------
(* The DOM tree html.Parse hands over (golang.org/x/net/html.Node): a node *)
(* is [Type, Data, Attr, Children]; Data is the tag name of an element and *)
(* the text of a text node; Attr is the ordered list of [Key, Val].        *)

NilNode ==
    [Type |-> "nil", Data |-> "", Attr |-> <<>>, Children |-> <<>>]

Element(tag, attrs, children) ==
    [Type |-> "ElementNode", Data |-> tag, Attr |-> attrs, Children |-> children]

TextNode(text) ==
    [Type |-> "TextNode", Data |-> text, Attr |-> <<>>, Children |-> <<>>]

DocumentNode(children) ==
    [Type |-> "DocumentNode", Data |-> "", Attr |-> <<>>, Children |-> children]

Attribute(key, val) ==
    [Key |-> key, Val |-> val]

\* the SiteMeta struct
SiteMeta(title, description, image, url) ==
    [Title |-> title, Description |-> description, Image |-> image, URL |-> url]

-----------------------------------------------------------------------------
(* The resolver: Client.parseSiteMeta and its helpers.                     *)

T_description ==
    <<"d", "e", "s", "c", "r", "i", "p", "t", "i", "o", "n">>

T_og_description ==
    <<"o", "g", ":", "d", "e", "s", "c", "r", "i", "p", "t", "i", "o", "n">>

T_twitter_description ==
    <<"t", "w", "i", "t", "t", "e", "r", ":", "d", "e", "s", "c", "r", "i", "p", "t", "i", "o", "n">>

T_og_image ==
    <<"o", "g", ":", "i", "m", "a", "g", "e">>

T_twitter_image ==
    <<"t", "w", "i", "t", "t", "e", "r", ":", "i", "m", "a", "g", "e">>

\* Client.findHeadTag / Client.findTitleTag: first element named tag, depth first
RECURSIVE findTag(_, _)
RECURSIVE findTagIn(_, _)
findTag(node, tag) ==
    IF node.Type = "ElementNode" /\ node.Data = tag
    THEN node
    ELSE findTagIn(node.Children, tag)

findTagIn(children, tag) ==
    IF children = <<>> THEN NilNode
    ELSE LET found == findTag(Head(children), tag) IN
         IF found.Type # "nil" THEN found
         ELSE findTagIn(Tail(children), tag)

findHeadTag(node) ==
    findTag(node, "head")

findTitleTag(node) ==
    findTag(node, "title")

\* Client.findMetaTags: every meta element under node, in document order
RECURSIVE findMetaTags(_)
RECURSIVE findMetaTagsIn(_)
findMetaTags(node) ==
    (IF node.Type = "ElementNode" /\ node.Data = "meta" THEN <<node>> ELSE <<>>)
        \o findMetaTagsIn(node.Children)

findMetaTagsIn(children) ==
    IF children = <<>> THEN <<>>
    ELSE findMetaTags(Head(children)) \o findMetaTagsIn(Tail(children))

\* the three tests of extractDescription's loop body on one element
IsDescriptionTag(m) ==
    \/ m.Attr[1].Key = "name" /\ m.Attr[1].Val = T_description
    \/ m.Attr[1].Key = "property" /\ m.Attr[1].Val = T_og_description
    \/ m.Attr[1].Key = "name" /\ m.Attr[1].Val = T_twitter_description

\* variant: the three patterns are tried one after the other over the whole list
RECURSIVE firstWithKeyVal(_, _, _)
firstWithKeyVal(metaTags, key, val) ==
    IF metaTags = <<>> THEN <<>>
    ELSE LET m == Head(metaTags) IN
         IF Len(m.Attr) >= 2 /\ m.Attr[1].Key = key /\ m.Attr[1].Val = val
         THEN <<m.Attr[2].Val>>
         ELSE firstWithKeyVal(Tail(metaTags), key, val)

extractDescriptionByPriority(metaTags) ==
    LET n == firstWithKeyVal(metaTags, "name", T_description)
        o == firstWithKeyVal(metaTags, "property", T_og_description)
        t == firstWithKeyVal(metaTags, "name", T_twitter_description)
    IN IF n # <<>> THEN n[1]
       ELSE IF o # <<>> THEN o[1]
       ELSE IF t # <<>> THEN t[1]
       ELSE EmptyText

\* variant: the discriminator and the content are looked up at any position
RECURSIVE extractDescriptionAnyPosition(_)
extractDescriptionAnyPosition(metaTags) ==
    IF metaTags = <<>> THEN EmptyText
    ELSE LET m == Head(metaTags)
             tagged == \E k \in 1..Len(m.Attr) :
                          \/ m.Attr[k].Key = "name" /\ m.Attr[k].Val = T_description
                          \/ m.Attr[k].Key = "property"
                                /\ m.Attr[k].Val = T_og_description
                          \/ m.Attr[k].Key = "name"
                                /\ m.Attr[k].Val = T_twitter_description
             contents == {k \in 1..Len(m.Attr) : m.Attr[k].Key = "content"}
         IN IF tagged /\ contents # {}
            THEN m.Attr[CHOOSE k \in contents : \A j \in contents : k <= j].Val
            ELSE extractDescriptionAnyPosition(Tail(metaTags))

\* Client.extractDescription
RECURSIVE extractDescription(_)
extractDescription(metaTags) ==
    IF metaTags = <<>> THEN EmptyText
    ELSE LET m == Head(metaTags) IN
         IF Len(m.Attr) < 2 THEN extractDescription(Tail(metaTags))
         ELSE IF IsDescriptionTag(m) THEN m.Attr[2].Val
         ELSE extractDescription(Tail(metaTags))

\* the two tests of extractImage's loop body on one element
IsImageTag(m) ==
    \/ m.Attr[1].Key = "property" /\ m.Attr[1].Val = T_og_image
    \/ m.Attr[1].Key = "name" /\ m.Attr[1].Val = T_twitter_image

\* Client.extractImage
RECURSIVE extractImage(_)
extractImage(metaTags) ==
    IF metaTags = <<>> THEN EmptyText
    ELSE LET m == Head(metaTags) IN
         IF Len(m.Attr) < 2 THEN extractImage(Tail(metaTags))
         ELSE IF IsImageTag(m) THEN m.Attr[2].Val
         ELSE extractImage(Tail(metaTags))

\* lines 173-175: the text of the title element, if it has a child
TitleOf(titleNode) ==
    IF titleNode.Type # "nil" /\ titleNode.Children # <<>>
    THEN Head(titleNode.Children).Data
    ELSE EmptyText

\* lines 180-182: the image field, img being the value extractImage found
ImageOf(img, url) ==
    IF img # EmptyText THEN resolveImageURL(img, url) ELSE EmptyText

\* lines 172-184: the metadata of a head element
ParseHead(head, metaTags, url) ==
    SiteMeta(TitleOf(findTitleTag(head)), extractDescription(metaTags),
             ImageOf(extractImage(metaTags), url), url)

\* lines 165-184, head being what findHeadTag returned
ParseFrom(head, url) ==
    IF head.Type = "nil"
    THEN SiteMeta(EmptyText, EmptyText, EmptyText, url)
    ELSE ParseHead(head, findMetaTags(head), url)

\* variant: without a head element the whole document is searched
ParseFromWholeDocument(doc, head, url) ==
    IF head.Type = "nil"
    THEN ParseHead(doc, findMetaTags(doc), url)
    ELSE ParseHead(head, findMetaTags(head), url)

parseSiteMetaWholeDocument(doc, url) ==
    ParseFromWholeDocument(doc, findHeadTag(doc), url)

\* Client.parseSiteMeta
parseSiteMeta(doc, url) ==
    ParseFrom(findHeadTag(doc), url)

-----------------------------------------------------------------------------
(* Inputs of the model: website URLs, image values, documents.             *)

\* "http//example.com": the scheme-less string of the tests
URL_NoScheme ==
    <<"h", "t", "t", "p", "/", "/", "e", "x", "a", "m", "p", "l", "e", ".", "c", "o", "m">>

\* "://example.com": url.Parse reports a missing protocol scheme
URL_ColonFirst ==
    <<":", "/", "/", "e", "x", "a", "m", "p", "l", "e", ".", "c", "o", "m">>

\* "ftp://example.com/x": parses, the HTTP transport rejects the scheme
URL_Ftp ==
    <<"f", "t", "p", ":", "/", "/", "e", "x", "a", "m", "p", "l", "e", ".", "c", "o", "m", "/", "x">>

\* "https://example.com/page"
URL_Page ==
    <<"h", "t", "t", "p", "s", ":", "/", "/", "e", "x", "a", "m", "p", "l", "e", ".", "c", "o", "m", "/", "p", "a", "g", "e">>

\* "HTTPS://example.com": url.Parse lower-cases the scheme
URL_UpperScheme ==
    <<"H", "T", "T", "P", "S", ":", "/", "/", "e", "x", "a", "m", "p", "l", "e", ".", "c", "o", "m">>

\* "https://omid.toys"
URL_Test ==
    <<"h", "t", "t", "p", "s", ":", "/", "/", "o", "m", "i", "d", ".", "t", "o", "y", "s">>

\* "http://example.com/a/b/?q"
URL_Query ==
    <<"h", "t", "t", "p", ":", "/", "/", "e", "x", "a", "m", "p", "l", "e", ".", "c", "o", "m", "/", "a", "/", "b", "/", "?", "q">>

InputURLs ==
    {EmptyText, URL_NoScheme, URL_ColonFirst, URL_Ftp, URL_Page, URL_UpperScheme,
     URL_Test, URL_Query}

\* "/og.png"
IMG_AbsPath ==
    <<"/", "o", "g", ".", "p", "n", "g">>

\* "og.png"
IMG_RelPath ==
    <<"o", "g", ".", "p", "n", "g">>

\* "../og.png"
IMG_DotDot ==
    <<".", ".", "/", "o", "g", ".", "p", "n", "g">>

\* "./img/../og.png"
IMG_Dots ==
    <<".", "/", "i", "m", "g", "/", ".", ".", "/", "o", "g", ".", "p", "n", "g">>

\* "//cdn.example.com/og.png"
IMG_NetPath ==
    <<"/", "/", "c", "d", "n", ".", "e", "x", "a", "m", "p", "l", "e", ".", "c", "o", "m", "/", "o", "g", ".", "p", "n", "g">>

\* "https://cdn.example.com/og.png"
IMG_Absolute ==
    <<"h", "t", "t", "p", "s", ":", "/", "/", "c", "d", "n", ".", "e", "x", "a", "m", "p", "l", "e", ".", "c", "o", "m", "/", "o", "g", ".", "p", "n", "g">>

\* "HTTP://CDN.example.com/og.png"
IMG_UpperAbsolute ==
    <<"H", "T", "T", "P", ":", "/", "/", "C", "D", "N", ".", "e", "x", "a", "m", "p", "l", "e", ".", "c", "o", "m", "/", "o", "g", ".", "p", "n", "g">>

\* "data:og"
IMG_Opaque ==
    <<"d", "a", "t", "a", ":", "o", "g">>

\* ":og.png": url.Parse fails
IMG_ColonFirst ==
    <<":", "o", "g", ".", "p", "n", "g">>

\* "1:og.png": url.Parse fails
IMG_ColonSegment ==
    <<"1", ":", "o", "g", ".", "p", "n", "g">>

\* "//cdn.example.com:80x/og.png": url.Parse fails
IMG_BadPort ==
    <<"/", "/", "c", "d", "n", ".", "e", "x", "a", "m", "p", "l", "e", ".", "c", "o", "m", ":", "8", "0", "x", "/", "o", "g", ".", "p", "n", "g">>

\* "#og"
IMG_Fragment ==
    <<"#", "o", "g">>

\* "?og"
IMG_Query ==
    <<"?", "o", "g">>

\* "img/og.png?v#top"
IMG_QueryFragment ==
    <<"i", "m", "g", "/", "o", "g", ".", "p", "n", "g", "?", "v", "#", "t", "o", "p">>

\* "body.png": the image of the element placed in the body
IMG_Body ==
    <<"b", "o", "d", "y", ".", "p", "n", "g">>

ImageValues ==
    {EmptyText, IMG_AbsPath, IMG_RelPath, IMG_DotDot, IMG_Dots, IMG_NetPath,
     IMG_Absolute, IMG_UpperAbsolute, IMG_Opaque, IMG_ColonFirst,
     IMG_ColonSegment, IMG_BadPort, IMG_Fragment, IMG_Query, IMG_QueryFragment}

\* content values of the description elements, one per element kind
D_name ==
    <<"d", "n">>

D_og ==
    <<"d", "o">>

D_twitter ==
    <<"d", "t">>

D_swapped ==
    <<"d", "s">>

D_late ==
    <<"d", "l">>

D_body ==
    <<"d", "b">>

\* title texts; the first one has surrounding blanks
Title_head ==
    <<" ", "X", " ">>

Title_body ==
    <<"B">>

Meta(attrs) ==
    Element("meta", attrs, <<>>)

M_name ==
    Meta(<<Attribute("name", T_description), Attribute("content", D_name)>>)

M_og ==
    Meta(<<Attribute("property", T_og_description), Attribute("content", D_og)>>)

M_twitter ==
    Meta(<<Attribute("name", T_twitter_description), Attribute("content", D_twitter)>>)

\* name=description with an empty content
M_nameEmpty ==
    Meta(<<Attribute("name", T_description), Attribute("content", EmptyText)>>)

\* the same attributes in the other order
M_swapped ==
    Meta(<<Attribute("content", D_swapped), Attribute("name", T_description)>>)

\* name=description / content only from the third attribute on
M_late ==
    Meta(<<Attribute("charset", <<"u">>), Attribute("lang", <<"e">>),
           Attribute("name", T_description), Attribute("content", D_late)>>)

\* a single attribute
M_single ==
    Meta(<<Attribute("name", T_description)>>)

M_ogImage ==
    Meta(<<Attribute("property", T_og_image), Attribute("content", IMG_AbsPath)>>)

M_twitterImage ==
    Meta(<<Attribute("name", T_twitter_image), Attribute("content", IMG_Absolute)>>)

MetaPool ==
    {M_name, M_og, M_twitter, M_nameEmpty, M_swapped, M_late, M_single,
     M_ogImage, M_twitterImage}

\* most meta elements in one head
MaxMetas ==
    2

MetaSeqs ==
    UNION {[1..k -> MetaPool] : k \in 0..MaxMetas}

TitleOptions ==
    {<<>>,
     <<Element("title", <<>>, <<TextNode(Title_head)>>)>>,
     <<Element("title", <<>>, <<>>)>>}

\* a body without metadata, and one carrying a title, a description and an image
BodyOptions ==
    {Element("body", <<>>, <<>>),
     Element("body", <<>>,
        <<Element("title", <<>>, <<TextNode(Title_body)>>),
          Meta(<<Attribute("name", T_description), Attribute("content", D_body)>>),
          Meta(<<Attribute("property", T_og_image), Attribute("content", IMG_Body)>>)>>)}

\* the trees html.Parse builds: html > head, body
ParsedDocs ==
    {DocumentNode(<<Element("html", <<>>, <<Element("head", <<>>, t \o ms), b>>)>>) :
        t \in TitleOptions, ms \in MetaSeqs, b \in BodyOptions}

\* trees without a head element, for the resolver alone
HeadlessDocs ==
    {DocumentNode(<<>>)} \cup
    {DocumentNode(<<Element("html", <<>>, <<Element("body", <<>>, t \o ms)>>)>>) :
        t \in TitleOptions, ms \in MetaSeqs}

Docs ==
    ParsedDocs \cup HeadlessDocs

-----------------------------------------------------------------------------
(* The fetchers.  What the HTTP transport and the headless browser answer  *)
(* is the environment's choice.                                            *)

\* http.StatusOK
StatusOK ==
    200

Statuses ==
    {200, 201, 404, 500}

\* a document without description and one with, as bodies of failed fetches
PlainDoc ==
    DocumentNode(<<Element("html", <<>>,
        <<Element("head", <<>>, <<>>), Element("body", <<>>, <<>>)>>)>>)

DescribedDoc ==
    DocumentNode(<<Element("html", <<>>,
        <<Element("head", <<>>, <<M_name>>), Element("body", <<>>, <<>>)>>)>>)

\* answers to the GET of fetchHTML: c.client.Do, resp.StatusCode, io.ReadAll,
\* html.Parse
Response(sent, status, read, parsed, doc) ==
    [sent |-> sent, status |-> status, read |-> read, parsed |-> parsed, doc |-> doc]

Responses ==
    {Response(FALSE, StatusOK, TRUE, TRUE, PlainDoc)}
    \cup {Response(TRUE, st, TRUE, TRUE, d) :
            st \in Statuses \ {StatusOK}, d \in {PlainDoc, DescribedDoc}}
    \cup {Response(TRUE, StatusOK, FALSE, TRUE, DescribedDoc),
          Response(TRUE, StatusOK, TRUE, FALSE, DescribedDoc)}
    \cup {Response(TRUE, StatusOK, TRUE, TRUE, d) : d \in ParsedDocs}

\* outcomes of chromedp.Run and of html.Parse on the captured markup
Rendering(run, parsed, doc) ==
    [run |-> run, parsed |-> parsed, doc |-> doc]

Renderings ==
    {Rendering(r, TRUE, DescribedDoc) :
        r \in {"navigate-failed", "wait-failed", "timeout"}}
    \cup {Rendering("ok", FALSE, DescribedDoc)}
    \cup {Rendering("ok", TRUE, d) : d \in ParsedDocs}

\* the HTTP transport sends only http and https requests that name a host
SendsRequest(u) ==
    /\ u.Scheme \in {<<"h", "t", "t", "p">>, <<"h", "t", "t", "p", "s">>}
    /\ u.Host # EmptyText

TransportAccepts(url) ==
    SendsRequest(Parse(url).url)

Failed(message) ==
    [ok |-> FALSE, doc |-> NilNode, error |-> message]

Fetched(doc) ==
    [ok |-> TRUE, doc |-> doc, error |-> "none"]

\* Client.fetchHTML
fetchHTML(url, resp) ==
    IF ~Parse(url).ok THEN Failed("failed to create request")
    ELSE IF ~TransportAccepts(url) \/ ~resp.sent THEN Failed("failed to fetch URL")
    ELSE IF resp.status # StatusOK THEN Failed("unexpected status code")
    ELSE IF ~resp.read THEN Failed("failed to read response body")
    ELSE IF ~resp.parsed THEN Failed("failed to parse HTML")
    ELSE Fetched(resp.doc)

\* Client.renderDOMWithChrome
renderDOMWithChrome(target, rendering) ==
    IF rendering.run # "ok" THEN Failed("chrome rendering failed")
    ELSE IF ~rendering.parsed THEN Failed("failed to parse rendered HTML")
    ELSE Fetched(rendering.doc)

\* a (*SiteMeta, error) pair; the pointer is <<>> for nil and <<m>> otherwise
Extracted(fetched, url) ==
    IF fetched.ok
    THEN [meta |-> <<parseSiteMeta(fetched.doc, url)>>, error |-> "none"]
    ELSE [meta |-> <<>>, error |-> fetched.error]

\* Client.extractMetaWithHTTP
extractMetaWithHTTP(url, resp) ==
    Extracted(fetchHTML(url, resp), url)

\* Client.extractMetaWithChromedp
extractMetaWithChromedp(url, rendering) ==
    Extracted(renderDOMWithChrome(url, rendering), url)

-----------------------------------------------------------------------------
(* Client.GetSiteMeta, in the three steps its blocking calls divide it     *)
(* into: validation, the static stage, the rendered stage.                 *)

NoError ==
    "none"

NilMeta ==
    <<>>

\* the value of httpMeta and chromedpMeta before their stage has run
NotRun ==
    [meta |-> NilMeta, error |-> NoError]

\* lines 58-65: the error GetSiteMeta returns before any fetch, or NoError
ValidateURL(u) ==
    IF u = EmptyText THEN "website URL cannot be empty"
    ELSE IF ~Parse(u).ok THEN "invalid URL"
    ELSE NoError

\* variant: the raw argument is passed on instead of parsedURL.String()
ParsedURLStringRaw(u) ==
    u

\* parsedURL.String(), the argument of both extractions (lines 67 and 73)
ParsedURLString(u) ==
    String(Parse(u).url)

\* variant: any empty field, not just the description, triggers the rendered stage
NeedsChromedpAnyEmpty(m) ==
    m.Description = EmptyText \/ m.Title = EmptyText \/ m.Image = EmptyText

\* line 72: is the rendered stage attempted?
NeedsChromedp(m) ==
    m.Description = EmptyText

\* variant: a failed static stage falls back to the rendered stage too
AfterHTTPFallbackOnError(extracted) ==
    IF extracted.error # NoError THEN "render"
    ELSE IF extracted.meta[1].Description = EmptyText THEN "render"
    ELSE "done"

\* lines 68-72: where the call goes after the static stage
AfterHTTP(extracted) ==
    IF extracted.error # NoError THEN "done"
    ELSE IF NeedsChromedp(extracted.meta[1]) THEN "render"
    ELSE "done"

\* variant: the failure of the rendered stage is returned to the caller
AfterChromedpPropagate(m, rendered) ==
    IF rendered.error # NoError
    THEN [result |-> NilMeta, err |-> "failed to extract metadata with ChromeDP",
          log |-> "none"]
    ELSE [result |-> rendered.meta, err |-> NoError, log |-> "none"]

\* variant: fields the rendered result left empty are filled from the static one
AfterChromedpMerge(m, rendered) ==
    IF rendered.error # NoError
    THEN [result |-> m, err |-> NoError, log |-> "ChromeDP extraction failed"]
    ELSE LET r == rendered.meta[1]
             h == m[1]
         IN [result |-> <<SiteMeta(IF r.Title = EmptyText THEN h.Title ELSE r.Title,
                                   r.Description,
                                   IF r.Image = EmptyText THEN h.Image ELSE r.Image,
                                   r.URL)>>,
             err |-> NoError, log |-> "none"]

\* lines 73-78: what the call returns after the rendered stage
AfterChromedp(m, rendered) ==
    IF rendered.error # NoError
    THEN [result |-> m, err |-> NoError, log |-> "ChromeDP extraction failed"]
    ELSE [result |-> rendered.meta, err |-> NoError, log |-> "none"]

Init ==
    /\ pc = "idle"
    /\ websiteURL = EmptyText
    /\ siteURL = EmptyText
    /\ httpMeta = NotRun
    /\ chromedpMeta = NotRun
    /\ result = NilMeta
    /\ err = NoError
    /\ log = "none"
    /\ fetches = <<>>
    /\ rpc = "off" /\ rdoc = NilNode /\ rurl = EmptyText /\ rmeta = NilMeta
    /\ ipc = "off" /\ imageURL = EmptyText /\ baseURL = EmptyText
    /\ iout = EmptyText

\* lines 57-65, invalid being what the validation answered
Validated(u, invalid) ==
    /\ err' = invalid
    /\ IF invalid # NoError
       THEN /\ pc' = "done"
            /\ siteURL' = EmptyText
       ELSE /\ pc' = "static"
            /\ siteURL' = ParsedURLString(u)

\* GetSiteMeta is entered: lines 57-65
Call(u) ==
    /\ pc = "idle"
    /\ websiteURL' = u
    /\ Validated(u, ValidateURL(u))
    /\ result' = NilMeta
    /\ UNCHANGED <<httpMeta, chromedpMeta, log, fetches>>
    /\ UNCHANGED <<resolverVars, imageVars>>

\* lines 68-72 and 81, extracted being what extractMetaWithHTTP returned and
\* next where the call goes
StaticDone(extracted, next) ==
    /\ httpMeta' = extracted
    /\ pc' = next
    /\ IF extracted.error # NoError
       THEN /\ err' = "failed to extract metadata with HTTP"
            /\ result' = NilMeta
       ELSE /\ err' = NoError
            /\ result' = IF next = "done" THEN extracted.meta ELSE NilMeta

\* line 67 and the tests that follow it
StaticExtracted(extracted) ==
    StaticDone(extracted, AfterHTTP(extracted))

\* the static stage: lines 67-72 and 81
StaticFetch(resp) ==
    /\ pc = "static"
    /\ fetches' = Append(fetches, "static")
    /\ StaticExtracted(extractMetaWithHTTP(siteURL, resp))
    /\ UNCHANGED <<websiteURL, siteURL, chromedpMeta, log>>
    /\ UNCHANGED <<resolverVars, imageVars>>

\* lines 74-78, after being what GetSiteMeta returns and prints
RenderDone(after) ==
    /\ result' = after.result
    /\ err' = after.err
    /\ log' = after.log

\* line 73 and the tests that follow it
RenderExtracted(extracted) ==
    /\ chromedpMeta' = extracted
    /\ RenderDone(AfterChromedp(httpMeta.meta, extracted))

\* the rendered stage: lines 73-78
RenderFetch(rendering) ==
    /\ pc = "render"
    /\ fetches' = Append(fetches, "render")
    /\ RenderExtracted(extractMetaWithChromedp(siteURL, rendering))
    /\ pc' = "done"
    /\ UNCHANGED <<websiteURL, siteURL, httpMeta>>
    /\ UNCHANGED <<resolverVars, imageVars>>

\* the call has returned; the client is ready for the next, independent call
Return ==
    /\ pc = "done"
    /\ pc' = "idle"
    /\ websiteURL' = EmptyText
    /\ siteURL' = EmptyText
    /\ httpMeta' = NotRun
    /\ chromedpMeta' = NotRun
    /\ result' = NilMeta
    /\ err' = NoError
    /\ log' = "none"
    /\ fetches' = <<>>
    /\ UNCHANGED <<resolverVars, imageVars>>

Next ==
    \/ \E u \in InputURLs : Call(u)
    \/ \E resp \in Responses : StaticFetch(resp)
    \/ \E rendering \in Renderings : RenderFetch(rendering)
    \/ Return

Spec ==
    Init /\ [][Next]_vars

-----------------------------------------------------------------------------
(* parseSiteMeta on its own: any tree, with or without a head element.     *)

\* the site URLs parseSiteMeta can be handed: normalised, accepted by the transport
FetchedURLs ==
    {ParsedURLString(u) :
        u \in {v \in InputURLs :
                ValidateURL(v) = NoError /\ TransportAccepts(ParsedURLString(v))}}

InitResolve ==
    /\ pc = "off"
    /\ websiteURL = EmptyText
    /\ siteURL = EmptyText
    /\ httpMeta = NotRun
    /\ chromedpMeta = NotRun
    /\ result = NilMeta
    /\ err = NoError
    /\ log = "none"
    /\ fetches = <<>>
    /\ rpc = "input"
    /\ rdoc \in Docs
    /\ rurl \in FetchedURLs
    /\ rmeta = NilMeta
    /\ ipc = "off" /\ imageURL = EmptyText /\ baseURL = EmptyText
    /\ iout = EmptyText

Resolve ==
    /\ rpc = "input"
    /\ rmeta' = <<parseSiteMeta(rdoc, rurl)>>
    /\ rpc' = "resolved"
    /\ UNCHANGED <<rdoc, rurl>>
    /\ UNCHANGED <<pipelineVars, imageVars>>

NextResolve ==
    Resolve

SpecResolve ==
    InitResolve /\ [][NextResolve]_vars

-----------------------------------------------------------------------------
(* resolveImageURL on its own.                                             *)

InitImage ==
    /\ pc = "off"
    /\ websiteURL = EmptyText
    /\ siteURL = EmptyText
    /\ httpMeta = NotRun
    /\ chromedpMeta = NotRun
    /\ result = NilMeta
    /\ err = NoError
    /\ log = "none"
    /\ fetches = <<>>
    /\ rpc = "off" /\ rdoc = NilNode /\ rurl = EmptyText /\ rmeta = NilMeta
    /\ ipc = "input"
    /\ imageURL \in ImageValues
    /\ baseURL \in FetchedURLs
    /\ iout = EmptyText

ResolveImage ==
    /\ ipc = "input"
    /\ iout' = resolveImageURL(imageURL, baseURL)
    /\ ipc' = "resolved"
    /\ UNCHANGED <<imageURL, baseURL>>
    /\ UNCHANGED <<pipelineVars, resolverVars>>

NextImage ==
    ResolveImage

SpecImage ==
    InitImage /\ [][NextImage]_vars

-----------------------------------------------------------------------------
(* Properties of GetSiteMeta, checked under Spec.                          *)

Returned ==
    pc = "done"

InvalidURLErrors ==
    {"website URL cannot be empty", "invalid URL"}

StaticSucceeded ==
    httpMeta.meta # NilMeta

StaticFailed ==
    fetches # <<>> /\ httpMeta.error # NoError

RenderStarted ==
    \E i \in 1..Len(fetches) : fetches[i] = "render"

RenderFailed ==
    RenderStarted /\ chromedpMeta.error # NoError

RenderSucceeded ==
    RenderStarted /\ chromedpMeta.error = NoError

\* C1: a call with "" or with the scheme-less "http//example.com" returns the
\* invalid-URL error, and no static and no rendered fetch has been started.
C1_InvalidURLBeforeFetch ==
    (Returned /\ websiteURL \in {EmptyText, URL_NoScheme})
        => /\ err \in InvalidURLErrors
           /\ result = NilMeta
           /\ fetches = <<>>

\* C2: when the static stage succeeded with an empty description and the
\* rendered stage failed, the call returns the static result unchanged and no
\* error.
C2_RenderFailureReturnsStatic ==
    (Returned /\ StaticSucceeded /\ RenderFailed)
        => /\ result = httpMeta.meta
           /\ err = NoError

C2_Witness ==
    /\ Returned
    /\ StaticSucceeded
    /\ httpMeta.meta[1].Description = EmptyText
    /\ httpMeta.meta[1].Title # EmptyText
    /\ RenderFailed
    /\ chromedpMeta.error = "failed to parse rendered HTML"
    /\ result = httpMeta.meta

\* C3: when the static stage succeeded with an empty description and the
\* rendered stage succeeded, the call returns exactly the rendered metadata:
\* every field is the rendered one, also where it is empty and the static
\* result had a value.
C3_RenderSuccessReplaces ==
    (Returned /\ StaticSucceeded /\ RenderSucceeded)
        => /\ err = NoError
           /\ result = chromedpMeta.meta
           /\ result # NilMeta

C3_Witness ==
    /\ Returned
    /\ StaticSucceeded
    /\ RenderSucceeded
    /\ httpMeta.meta[1].Title # EmptyText
    /\ httpMeta.meta[1].Image # EmptyText
    /\ result # NilMeta
    /\ result[1].Title = EmptyText
    /\ result[1].Image = EmptyText
    /\ result[1].Description = EmptyText

\* C4: each stage is started at most once and the rendered one only after the
\* static one has completed; the rendered stage is started exactly when the
\* static result's description is empty, whatever its title and image are.
C4_RenderOnlyOnEmptyDescription ==
    /\ fetches \in {<<>>, <<"static">>, <<"static", "render">>}
    /\ RenderStarted
        => StaticSucceeded /\ httpMeta.meta[1].Description = EmptyText
    /\ pc = "render"
        => StaticSucceeded /\ httpMeta.meta[1].Description = EmptyText
    /\ (Returned /\ StaticSucceeded)
        => (RenderStarted <=> httpMeta.meta[1].Description = EmptyText)

C4_Witness ==
    /\ Returned
    /\ StaticSucceeded
    /\ httpMeta.meta[1].Description # EmptyText
    /\ httpMeta.meta[1].Title = EmptyText
    /\ httpMeta.meta[1].Image = EmptyText
    /\ fetches = <<"static">>
    /\ result = httpMeta.meta

\* C5: when the static stage fails, the call returns an error and no metadata,
\* and the rendered stage is not attempted.
C5_StaticFailureIsFinal ==
    StaticFailed
        => /\ Returned
           /\ err = "failed to extract metadata with HTTP"
           /\ result = NilMeta
           /\ fetches = <<"static">>
           /\ chromedpMeta = NotRun

C5_Witness ==
    /\ Returned
    /\ StaticFailed
    /\ httpMeta.error = "unexpected status code"
    /\ fetches = <<"static">>
    /\ err # NoError

\* C6: every SiteMeta returned without error carries the parsed and
\* re-serialised input URL in its URL field, also when title, description and
\* image are all empty.
C6_URLIsNormalizedInput ==
    (Returned /\ err = NoError)
        => /\ result # NilMeta
           /\ result[1].URL = String(Parse(websiteURL).url)

C6_Witness ==
    /\ Returned
    /\ err = NoError
    /\ websiteURL = URL_UpperScheme
    /\ result # NilMeta
    /\ result[1].URL # websiteURL
    /\ result[1].Title = EmptyText
    /\ result[1].Description = EmptyText
    /\ result[1].Image = EmptyText
    /\ RenderFailed

-----------------------------------------------------------------------------
(* Properties of parseSiteMeta, checked under SpecResolve.                 *)

Resolved ==
    rpc = "resolved"

HasHead(doc) ==
    findHeadTag(doc).Type # "nil"

\* the meta elements of the head, in document order
HeadMetas(doc) ==
    IF HasHead(doc) THEN findMetaTags(findHeadTag(doc)) ELSE <<>>

\* an element that carries a description: two attributes at least, the first
\* of them one of the three patterns
Matches(m) ==
    Len(m.Attr) >= 2 /\ IsDescriptionTag(m)

\* the value of the first element of ms that carries a description
FirstMatchValue(ms) ==
    LET I == {i \in 1..Len(ms) : Matches(ms[i])} IN
    IF I = {} THEN EmptyText
    ELSE ms[CHOOSE i \in I : \A j \in I : i <= j].Attr[2].Val

IsOgDescription(m) ==
    /\ Len(m.Attr) >= 2
    /\ m.Attr[1] = Attribute("property", T_og_description)

\* first two attributes [name=description, content=Y]
IsNameDescription(m) ==
    /\ Len(m.Attr) >= 2
    /\ m.Attr[1] = Attribute("name", T_description)
    /\ m.Attr[2].Key = "content"

\* name=description only from the third attribute on
LateOnly(m) ==
    /\ Len(m.Attr) >= 3
    /\ \E k \in 3..Len(m.Attr) : m.Attr[k] = Attribute("name", T_description)
    /\ \A k \in 1..2 : m.Attr[k] # Attribute("name", T_description)

NotLateOnly(m) ==
    ~LateOnly(m)

HasTwoAttrs(m) ==
    Len(m.Attr) >= 2

\* C7: the description is the value of the first head meta element, in
\* document order, that matches any of the three patterns; an og:description
\* element ahead of a name=description element gives the description.
C7_FirstMatchingElementWins ==
    Resolved =>
        LET ms == HeadMetas(rdoc) IN
        /\ rmeta[1].Description = FirstMatchValue(ms)
        /\ \A i \in 1..Len(ms) : \A j \in (i + 1)..Len(ms) :
              (/\ IsOgDescription(ms[i])
               /\ IsNameDescription(ms[j])
               /\ \A k \in 1..(i - 1) : ~Matches(ms[k]))
                  => rmeta[1].Description = ms[i].Attr[2].Val

C7_Witness ==
    /\ Resolved
    /\ HeadMetas(rdoc) = <<M_og, M_name>>
    /\ rmeta[1].Description = D_og

\* C8 as stated: whenever the document contains a meta element whose first two
\* attributes are [name=description, content=Y], the description is Y; an
\* element with name=description only from position three on is not picked
\* up; an element with fewer than two attributes is skipped.
C8_AnyNameDescriptionElementWins ==
    Resolved =>
        LET all == findMetaTags(rdoc)
            ms == HeadMetas(rdoc)
        IN
        /\ \A i \in 1..Len(all) :
              IsNameDescription(all[i])
                  => rmeta[1].Description = all[i].Attr[2].Val
        /\ rmeta[1].Description = FirstMatchValue(SelectSeq(ms, NotLateOnly))
        /\ rmeta[1].Description = FirstMatchValue(SelectSeq(ms, HasTwoAttrs))

\* C8 amended: when the first head meta element that matches one of the three
\* description patterns has [name=description, content=Y] as its first two
\* attributes, the description is Y; an element with name=description only
\* from position three on is not picked up; an element with fewer than two
\* attributes is skipped.
C8_FirstNameDescriptionElementWins ==
    Resolved =>
        LET ms == HeadMetas(rdoc)
            I == {i \in 1..Len(ms) : Matches(ms[i])}
        IN
        /\ \A i \in I :
              (IsNameDescription(ms[i]) /\ \A k \in I : i <= k)
                  => rmeta[1].Description = ms[i].Attr[2].Val
        /\ rmeta[1].Description = FirstMatchValue(SelectSeq(ms, NotLateOnly))
        /\ rmeta[1].Description = FirstMatchValue(SelectSeq(ms, HasTwoAttrs))
        /\ (I = {} /\ \E i \in 1..Len(ms) : LateOnly(ms[i]))
              => rmeta[1].Description = EmptyText

C8_Witness ==
    /\ Resolved
    /\ HeadMetas(rdoc) = <<M_late, M_name>>
    /\ rmeta[1].Description = D_name

\* C10: a document without a head element resolves to a SiteMeta with only
\* the URL set; titles, descriptions and images of elements outside the head
\* never reach the result.
C10_NoHeadOnlyURL ==
    Resolved =>
        /\ ~HasHead(rdoc)
              => rmeta[1] = SiteMeta(EmptyText, EmptyText, EmptyText, rurl)
        /\ rmeta[1].URL = rurl
        /\ rmeta[1].Title \in {EmptyText, Title_head}
        /\ rmeta[1].Description # D_body
        /\ rmeta[1].Image \in
              {EmptyText, resolveImageURL(IMG_AbsPath, rurl), IMG_Absolute}

C10_Witness ==
    /\ Resolved
    /\ ~HasHead(rdoc)
    /\ findTitleTag(rdoc).Type # "nil"
    /\ findMetaTags(rdoc) = <<M_name, M_ogImage>>
    /\ rmeta[1] = SiteMeta(EmptyText, EmptyText, EmptyText, rurl)
    /\ rurl # EmptyText

-----------------------------------------------------------------------------
(* Properties of resolveImageURL, checked under SpecImage.                 *)

ImageResolved ==
    ipc = "resolved"

\* "https://example.com/og.png"
IMG_Resolved ==
    <<"h", "t", "t", "p", "s", ":", "/", "/", "e", "x", "a", "m", "p", "l", "e", ".", "c", "o", "m", "/", "o", "g", ".", "p", "n", "g">>

\* C9: an empty image stays empty; an image with a scheme is returned
\* unchanged; any other image is resolved against the site URL, "/og.png"
\* against "https://example.com/page" giving "https://example.com/og.png"; an
\* image that cannot be resolved is returned unchanged; a non-empty image
\* never becomes empty.
C9_ImageURLNormalization ==
    ImageResolved =>
        LET image == Parse(imageURL)
            base == Parse(baseURL).url
            out == Parse(iout)
        IN
        /\ imageURL = EmptyText => iout = EmptyText
        /\ imageURL # EmptyText => iout # EmptyText
        /\ (image.ok /\ image.url.Scheme # EmptyText) => iout = imageURL
        /\ ~image.ok => iout = imageURL
        /\ (image.ok /\ image.url.Scheme = EmptyText /\ imageURL # EmptyText)
              => /\ iout = String(ResolveReference(base, image.url))
                 /\ out.ok
                 /\ out.url.Scheme = base.Scheme
                 /\ out.url.Host =
                        (IF image.url.Host = EmptyText THEN base.Host
                         ELSE image.url.Host)
        /\ (imageURL = IMG_AbsPath /\ baseURL = URL_Page) => iout = IMG_Resolved

C9_Witness ==
    /\ ImageResolved
    /\ imageURL = IMG_AbsPath
    /\ baseURL = URL_Page
    /\ iout = IMG_Resolved

====
